---------------------------- MODULE Spec2Model ----------------------------
(***************************************************************************)
(* Game Manager API (src/server.js): an Express server over an in-memory   *)
(* array `games` and a counter `nextId`.  Every route handler runs to      *)
(* completion, so each request is one atomic action.                       *)
(*                                                                         *)
(* JSON values are tagged records [t, s, n]: t is the JavaScript type      *)
(* ("undefined" for an absent key), s the text of a string, n the value of *)
(* a number or boolean.  Numbers are fixed-point, in units of 1/Scale, so  *)
(* that the seed rating 9.5 is a value of the model.                       *)
(***************************************************************************)
EXTENDS Integers, Sequences, FiniteSets

VARIABLES
    games,      \* let games = [...]                       (server.js:12)
    nextId,     \* let nextId = 3                          (server.js:38)
    request,    \* the request handled last: [op, id, body]
    response,   \* the response sent to it: [status, body]
    before,     \* history: games when that request arrived
    beforeNextId, \* history: nextId when that request arrived
    assigned,   \* history: every id ever given to a record, in order
    deleted,    \* history: the ids removed by DELETE
    fresh,      \* history: the 201 bodies of records not targeted since
    repeat      \* history: the request before the last one had the same
                \* method and id and was answered 200

vars == <<games, nextId, request, response, before, beforeNextId, assigned,
          deleted, fresh, repeat>>

----------------------------------------------------------------------------
(* Bounds *)

\* POST stops creating once nextId has reached MaxNextId.
MaxNextId == 5

----------------------------------------------------------------------------
(* JavaScript values *)

\* Numbers are counted in units of 1/Scale (9.5 is 95).
Scale == 10

Undef == [t |-> "undefined", s |-> "", n |-> 0]
Null == [t |-> "null", s |-> "", n |-> 0]
Str(x) == [t |-> "string", s |-> x, n |-> 0]
Num(x) == [t |-> "number", s |-> "", n |-> x]
Bool(b) == [t |-> "boolean", s |-> "", n |-> IF b THEN 1 ELSE 0]

\* ToBoolean: undefined, null, false, 0 and "" are falsy (JSON has no NaN).
Truthy(v) ==
    CASE v.t = "undefined" -> FALSE
      [] v.t = "null" -> FALSE
      [] v.t = "boolean" -> v.n = 1
      [] v.t = "number" -> v.n # 0
      [] v.t = "string" -> v.s # ""

\* typeof v, for the values JSON can carry here.
TypeOf(v) == IF v.t = "null" THEN "object" ELSE v.t

\* Number.prototype.toString of a non-negative integer: its decimal digits.
Digit == <<"0", "1", "2", "3", "4", "5", "6", "7", "8", "9">>

RECURSIVE toString(_)
toString(n) ==
    IF n < 10 THEN Digit[n + 1]
    ELSE toString(n \div 10) \o Digit[(n % 10) + 1]

\* The date strings of the model that Date.parse reads as a date; it gives
\* NaN for every other string.
ParsableDates == {"2017-03-03T00:00:00Z", "2020-12-10T00:00:00Z", "2020-09-17"}

\* new Date(v) holds NaN: undefined gives NaN, a string goes through
\* Date.parse, null, booleans and numbers go through ToNumber (every number
\* of the model is finite and within the time range).
DateIsNaN(v) ==
    CASE v.t = "undefined" -> TRUE
      [] v.t = "string" -> v.s \notin ParsableDates
      [] OTHER -> FALSE

\* function isValidDate(dateString)
isValidDate(dateString) == ~DateIsNaN(dateString)

----------------------------------------------------------------------------
(* The store *)

Game(id, title, description, genre, platform, rating, releaseDate, imageUrl, isFavorite) ==
    [id |-> id, title |-> title, description |-> description,
     genre |-> genre, platform |-> platform, rating |-> rating,
     releaseDate |-> releaseDate, imageUrl |-> imageUrl,
     isFavorite |-> isFavorite]

\* let games = [ {id: "1", ...}, {id: "2", ...} ]
SeedGames ==
    << Game("1", Str("The Legend of Zelda: Breath of the Wild"),
            Str("Open-world adventure game"), Str("Action-Adventure"),
            Str("Nintendo Switch"), Num(95), Str("2017-03-03T00:00:00Z"),
            Str("https://upload.wikimedia.org/wikipedia/en/c/c6/The_Legend_of_Zelda_Breath_of_the_Wild.jpg"),
            TRUE),
       Game("2", Str("Cyberpunk 2077"), Str("Futuristic RPG"), Str("RPG"),
            Str("PC"), Num(80), Str("2020-12-10T00:00:00Z"),
            Str("https://upload.wikimedia.org/wikipedia/en/9/9f/Cyberpunk_2077_box_art.jpg"),
            FALSE) >>

\* let nextId = 3
SeedNextId == 3

Min(S) == CHOOSE x \in S : \A y \in S : x <= y

\* Mutant: no match yields the last index instead of -1.
findGameIndexById_last(gs, id) ==
    LET hits == {i \in 1..Len(gs) : gs[i].id = id}
    IN  IF hits = {} THEN Len(gs) - 1 ELSE Min(hits) - 1

\* games.findIndex((game) => game.id === id): the first index (from 0) of a
\* record with that id, -1 when there is none.
findGameIndexById(gs, id) ==
    LET hits == {i \in 1..Len(gs) : gs[i].id = id}
    IN  IF hits = {} THEN -1 ELSE Min(hits) - 1

\* Mutant: the first record, whatever its id.
findGameById_first(gs, id) == IF gs = <<>> THEN Undef ELSE gs[1]

\* games.find((game) => game.id === id): that record, Undef when none.
findGameById(gs, id) ==
    LET hits == {i \in 1..Len(gs) : gs[i].id = id}
    IN  IF hits = {} THEN Undef ELSE gs[Min(hits)]

----------------------------------------------------------------------------
(* Validation *)

Fields == <<"title", "description", "genre", "platform", "rating",
            "releaseDate", "imageUrl">>

Message(field) ==
    CASE field = "title" -> "Title is required and must be a string"
      [] field = "description" -> "Description is required and must be a string"
      [] field = "genre" -> "Genre is required and must be a string"
      [] field = "platform" -> "Platform is required and must be a string"
      [] field = "rating" -> "Rating must be a number between 0 and 10"
      [] field = "releaseDate" -> "Release date must be a valid ISO 8601 date"
      [] field = "imageUrl" -> "Image URL is required and must be a string"

RatingMin == 0
RatingMax == 10

\* Mutant: rating is checked like the other required fields (!rating), so
\* that 0 is rejected.
FieldRejected_falsyRating(field, body) ==
    LET v == body[field]
    IN  CASE field = "rating" ->
               \/ ~Truthy(v)
               \/ TypeOf(v) # "number"
               \/ v.n < RatingMin * Scale
               \/ v.n > RatingMax * Scale
          [] field = "releaseDate" -> ~Truthy(v) \/ ~isValidDate(v)
          [] OTHER -> ~Truthy(v) \/ TypeOf(v) # "string"

\* The condition of the `if` that pushes the error of `field`.
FieldRejected(field, body) ==
    LET v == body[field]
    IN  CASE field = "rating" ->
               \/ v.t = "undefined"
               \/ TypeOf(v) # "number"
               \/ v.n < RatingMin * Scale
               \/ v.n > RatingMax * Scale
          [] field = "releaseDate" -> ~Truthy(v) \/ ~isValidDate(v)
          [] OTHER -> ~Truthy(v) \/ TypeOf(v) # "string"

RECURSIVE CollectErrors(_, _)
CollectErrors(i, body) ==
    IF i > Len(Fields) THEN <<>>
    ELSE (IF FieldRejected(Fields[i], body)
          THEN <<[field |-> Fields[i], message |-> Message(Fields[i])]>>
          ELSE <<>>) \o CollectErrors(i + 1, body)

\* Mutant: validation stops at the first failed check.
validateGameData_firstOnly(body) ==
    IF CollectErrors(1, body) = <<>> THEN <<>>
    ELSE <<CollectErrors(1, body)[1]>>

\* The errors array of validateGameData: every failed check, in check order.
validateGameData(body) == CollectErrors(1, body)

ValidationError(errors) ==
    [status |-> 400,
     body |-> [error |-> "VALIDATION_ERROR", message |-> "Invalid input data",
               details |-> errors, code |-> 400]]

NotFound(id) ==
    [status |-> 404,
     body |-> [message |->
                 "404 Not Found : No such game found with id " \o id]]

----------------------------------------------------------------------------
(* Requests *)

Body(title, description, genre, platform, rating, releaseDate, imageUrl, isFavorite) ==
    [title |-> title, description |-> description, genre |-> genre,
     platform |-> platform, rating |-> rating, releaseDate |-> releaseDate,
     imageUrl |-> imageUrl, isFavorite |-> isFavorite]

\* The body {} (and the body of a request that carries none).
EmptyBody == Body(Undef, Undef, Undef, Undef, Undef, Undef, Undef, Undef)

\* A body every check accepts: rating exactly 0, no isFavorite key.
HadesBody ==
    Body(Str("Hades"), Str("Roguelike"), Str("Action"), Str("PC"),
         Num(RatingMin * Scale), Str("2020-09-17"),
         Str("https://img.example/hades.jpg"), Undef)

\* Accepted too: rating exactly 10, the number 2018 as releaseDate, and
\* isFavorite: true.
CelesteBody ==
    Body(Str("Celeste"), Str("Platformer"), Str("Platform"), Str("Switch"),
         Num(RatingMax * Scale), Num(2018 * Scale),
         Str("https://img.example/celeste.jpg"), Bool(TRUE))

\* Bodies that fail several checks: rating above the range and a string
\* that is no date; an empty title, wrong types, rating below the range, a
\* falsy releaseDate; a missing key, a boolean and a rating given as text.
RangeBody ==
    [HadesBody EXCEPT !.rating = Num(RatingMax * Scale + 1),
                      !.releaseDate = Str("not-a-date")]

BadTypesBody ==
    [HadesBody EXCEPT !.title = Str(""), !.description = Num(7),
                      !.rating = Num(RatingMin * Scale - 1),
                      !.releaseDate = Num(0), !.imageUrl = Null]

MissingBody ==
    [CelesteBody EXCEPT !.genre = Bool(TRUE), !.platform = Undef,
                        !.rating = Str("9")]

\* req.body of POST /api/games
PostBodies == {HadesBody, CelesteBody, EmptyBody, RangeBody, BadTypesBody}

\* req.body of PUT /api/games/:id
PutBodies == {CelesteBody, MissingBody}

\* req.params.id: the seed ids and the first two ids the counter gives.
ReqIds == {"1", "2", "3", "4"}

----------------------------------------------------------------------------
(* Handlers *)

\* const newGame = { id: nextId.toString(), ..., isFavorite: false }
NewGame(n, body) ==
    Game(toString(n), body.title, body.description, body.genre,
         body.platform, body.rating, body.releaseDate, body.imageUrl, FALSE)

\* Mutant: the body is spread over the record, isFavorite included.
UpdatedGame_bodyFavorite(game, body) ==
    [game EXCEPT !.title = body.title, !.description = body.description,
                 !.genre = body.genre, !.platform = body.platform,
                 !.rating = body.rating, !.releaseDate = body.releaseDate,
                 !.imageUrl = body.imageUrl,
                 !.isFavorite = IF body.isFavorite.t = "undefined"
                                THEN game.isFavorite
                                ELSE Truthy(body.isFavorite)]

\* Mutant: imageUrl is left out of the replaced fields.
UpdatedGame_keepsImage(game, body) ==
    [game EXCEPT !.title = body.title, !.description = body.description,
                 !.genre = body.genre, !.platform = body.platform,
                 !.rating = body.rating, !.releaseDate = body.releaseDate]

\* const updatedGame = { ...games[gameIndex], title, ..., imageUrl }
UpdatedGame(game, body) ==
    [game EXCEPT !.title = body.title, !.description = body.description,
                 !.genre = body.genre, !.platform = body.platform,
                 !.rating = body.rating, !.releaseDate = body.releaseDate,
                 !.imageUrl = body.imageUrl]

\* Mutant: the flag is set instead of flipped.
ToggledGame_setTrue(game) == [game EXCEPT !.isFavorite = TRUE]

\* games[gameIndex].isFavorite = !games[gameIndex].isFavorite
ToggledGame(game) == [game EXCEPT !.isFavorite = ~game.isFavorite]

\* Mutant: the counter is not advanced.
Incremented_same(n) == n

\* nextId++
Incremented(n) == n + 1

\* Mutant: games.unshift(newGame).
Push_unshift(gs, game) == <<game>> \o gs

\* games.push(newGame)
Push(gs, game) == Append(gs, game)

\* games[gameIndex] = game (gameIndex counts from 0)
SetAt(gs, gameIndex, game) == [gs EXCEPT ![gameIndex + 1] = game]

\* games.splice(gameIndex, 1)
Splice(gs, gameIndex) ==
    SubSeq(gs, 1, gameIndex) \o SubSeq(gs, gameIndex + 2, Len(gs))

\* What every handler leaves behind for the history variables.
Handled(op, id, body, resp) ==
    /\ request' = [op |-> op, id |-> id, body |-> body]
    /\ response' = resp
    /\ before' = games
    /\ beforeNextId' = nextId
    /\ repeat' = (request.op = op /\ request.id = id /\ response.status = 200)

\* app.get("/api/games")
ListGames ==
    /\ Handled("list", "", EmptyBody, [status |-> 200, body |-> games])
    /\ UNCHANGED <<games, nextId, assigned, deleted, fresh>>

\* app.get("/api/games/:id")
GetGame(id) ==
    LET game == findGameById(games, id)
    IN  /\ Handled("get", id, EmptyBody,
                   IF game = Undef THEN NotFound(id)
                   ELSE [status |-> 200, body |-> game])
        /\ UNCHANGED <<games, nextId, assigned, deleted, fresh>>

\* app.post("/api/games", validateGameData, ...)
PostGame(body) ==
    LET errors == validateGameData(body)
        newGame == NewGame(nextId, body)
    IN  IF errors # <<>>
        THEN /\ Handled("post", "", body, ValidationError(errors))
             /\ UNCHANGED <<games, nextId, assigned, deleted, fresh>>
        ELSE /\ nextId < MaxNextId
             /\ games' = Push(games, newGame)
             /\ nextId' = Incremented(nextId)
             /\ Handled("post", "", body, [status |-> 201, body |-> newGame])
             /\ assigned' = Append(assigned, newGame.id)
             /\ fresh' = fresh \cup {newGame}
             /\ UNCHANGED deleted

\* app.put("/api/games/:id", validateGameData, ...)
PutGame(id, body) ==
    LET errors == validateGameData(body)
        gameIndex == findGameIndexById(games, id)
        updatedGame == UpdatedGame(games[gameIndex + 1], body)
    IN  IF errors # <<>>
        THEN /\ Handled("put", id, body, ValidationError(errors))
             /\ UNCHANGED <<games, nextId, assigned, deleted, fresh>>
        ELSE IF gameIndex = -1
        THEN /\ Handled("put", id, body, NotFound(id))
             /\ UNCHANGED <<games, nextId, assigned, deleted, fresh>>
        ELSE /\ games' = SetAt(games, gameIndex, updatedGame)
             /\ Handled("put", id, body, [status |-> 200, body |-> updatedGame])
             /\ fresh' = {g \in fresh : g.id # id}
             /\ UNCHANGED <<nextId, assigned, deleted>>

\* app.delete("/api/games/:id")
DeleteGame(id) ==
    LET gameIndex == findGameIndexById(games, id)
    IN  IF gameIndex = -1
        THEN /\ Handled("delete", id, EmptyBody, NotFound(id))
             /\ UNCHANGED <<games, nextId, assigned, deleted, fresh>>
        ELSE /\ games' = Splice(games, gameIndex)
             /\ Handled("delete", id, EmptyBody,
                        [status |-> 200,
                         body |-> [message |-> "Game deleted successfully"]])
             /\ deleted' = deleted \cup {id}
             /\ fresh' = {g \in fresh : g.id # id}
             /\ UNCHANGED <<nextId, assigned>>

\* app.patch("/api/games/:id/favorite")
PatchFavorite(id) ==
    LET gameIndex == findGameIndexById(games, id)
        toggled == ToggledGame(games[gameIndex + 1])
    IN  IF gameIndex = -1
        THEN /\ Handled("patch", id, EmptyBody, NotFound(id))
             /\ UNCHANGED <<games, nextId, assigned, deleted, fresh>>
        ELSE /\ games' = SetAt(games, gameIndex, toggled)
             /\ Handled("patch", id, EmptyBody, [status |-> 200, body |-> toggled])
             /\ fresh' = {g \in fresh : g.id # id}
             /\ UNCHANGED <<nextId, assigned, deleted>>

----------------------------------------------------------------------------
(* Specification *)

\* The process after start-up; no request has been handled yet.
Init ==
    /\ games = SeedGames
    /\ nextId = SeedNextId
    /\ request = [op |-> "none", id |-> "", body |-> EmptyBody]
    /\ response = [status |-> 0, body |-> <<>>]
    /\ before = SeedGames
    /\ beforeNextId = SeedNextId
    /\ assigned = <<"1", "2">>
    /\ deleted = {}
    /\ fresh = {}
    /\ repeat = FALSE

Next ==
    \/ ListGames
    \/ \E id \in ReqIds : GetGame(id)
    \/ \E body \in PostBodies : PostGame(body)
    \/ \E id \in ReqIds, body \in PutBodies : PutGame(id, body)
    \/ \E id \in ReqIds : DeleteGame(id)
    \/ \E id \in ReqIds : PatchFavorite(id)

Spec == Init /\ [][Next]_vars

----------------------------------------------------------------------------
(* What the properties speak about *)

\* The fields of a payload in the order the checks are documented.
CheckOrder ==
    <<"title", "description", "genre", "platform", "rating", "releaseDate",
      "imageUrl">>

StringFields == {"title", "description", "genre", "platform", "imageUrl"}

\* A payload's field breaks its rule: a string field is missing, empty or
\* no string; rating is missing, no number or outside [0,10]; releaseDate is
\* missing (absent or falsy) or does not parse to a date.
Violated(field, body) ==
    LET v == body[field]
    IN  IF field \in StringFields THEN v.t # "string" \/ v.s = ""
        ELSE IF field = "rating"
        THEN v.t # "number" \/ v.n < 0 \/ v.n > 10 * Scale
        ELSE ~Truthy(v) \/ DateIsNaN(v)

PayloadValid(body) ==
    \A i \in 1..Len(CheckOrder) : ~Violated(CheckOrder[i], body)

ViolatedFields(body) ==
    SelectSeq(CheckOrder, LAMBDA f : Violated(f, body))

Ids(gs) == [i \in 1..Len(gs) |-> gs[i].id]

Has(gs, id) == \E i \in 1..Len(gs) : gs[i].id = id

IndexOf(gs, id) == CHOOSE i \in 1..Len(gs) : gs[i].id = id

\* The number a decimal id string denotes.
parseInt(id) == CHOOSE n \in 0..(MaxNextId + 1) : toString(n) = id

Created == request.op = "post" /\ response.status = 201

----------------------------------------------------------------------------
(* Properties *)

\* C1: POST /api/games with a payload that passes validation answers 201
\* with a record whose id is the decimal string of the counter, an id never
\* assigned before (seed and deleted ids included), and isFavorite = false
\* whatever the payload carried; the record is appended and the counter
\* grows by exactly 1.
C1_ValidCreate ==
    (request.op = "post" /\ PayloadValid(request.body)) =>
        /\ response.status = 201
        /\ response.body.id = toString(beforeNextId)
        /\ assigned[Len(assigned)] = response.body.id
        /\ \A i \in 1..(Len(assigned) - 1) : assigned[i] # response.body.id
        /\ response.body.isFavorite = FALSE
        /\ games = Append(before, response.body)
        /\ nextId = beforeNextId + 1

\* A create after a delete, with rating exactly 10 and isFavorite: true in
\* the payload.
C1_Witness ==
    /\ Created
    /\ request.body.rating = Num(10 * Scale)
    /\ request.body.isFavorite = Bool(TRUE)
    /\ deleted # {}

\* C2: a POST or PUT whose payload breaks a rule answers 400 with exactly
\* one {field, message} entry per violated field, none for the others, in
\* the check order; the collection and the counter are unchanged.
C2_ValidationErrors ==
    (request.op \in {"post", "put"} /\ ~PayloadValid(request.body)) =>
        /\ response.status = 400
        /\ LET details == response.body.details
           IN  /\ [i \in 1..Len(details) |-> details[i].field]
                     = ViolatedFields(request.body)
               /\ \A i \in 1..Len(details) :
                     DOMAIN details[i] = {"field", "message"}
        /\ games = before
        /\ nextId = beforeNextId

\* A PUT on an existing id rejected with three entries.
C2_Witness ==
    /\ request.op = "put"
    /\ Has(before, request.id)
    /\ response.status = 400
    /\ Len(response.body.details) = 3

\* C3 as stated: get, update, delete and toggle on an id that matches no
\* record answer 404 and leave the collection unchanged, for update whatever
\* the body.
C3_NotFound ==
    (request.op \in {"get", "put", "delete", "patch"}
        /\ ~Has(before, request.id)) =>
        /\ response.status = 404
        /\ games = before

\* C3 amended: as above, except that an update whose body fails validation
\* answers 400 (the body is checked before the id is looked up); the
\* collection is unchanged there too.
C3_NotFoundAmended ==
    (request.op \in {"get", "put", "delete", "patch"}
        /\ ~Has(before, request.id)) =>
        /\ response.status =
              IF request.op = "put" /\ ~PayloadValid(request.body)
              THEN 400 ELSE 404
        /\ games = before
        /\ nextId = beforeNextId

\* A valid update of an id that was deleted, in a collection of three.
C3_Witness ==
    /\ request.op = "put"
    /\ PayloadValid(request.body)
    /\ request.id \in deleted
    /\ response.status = 404
    /\ Len(games) = 3

\* C4: no two records share an id, every id is numerically below the
\* counter, the counter never decreases, and no record carries an id that
\* DELETE removed.
C4_IdsUniqueMonotonic ==
    /\ \A i, j \in 1..Len(games) : i # j => games[i].id # games[j].id
    /\ \A i \in 1..Len(games) : parseInt(games[i].id) < nextId
    /\ nextId >= beforeNextId
    /\ \A i \in 1..Len(games) : games[i].id \notin deleted

\* A create that follows the deletion of the record created before it.
C4_Witness ==
    /\ Created
    /\ response.body.id = "4"
    /\ "3" \in deleted

\* C5: a record's isFavorite changes only in a successful PATCH of its id.
C5_FavoriteFrame ==
    \A i \in 1..Len(before), j \in 1..Len(games) :
        (before[i].id = games[j].id
            /\ before[i].isFavorite # games[j].isFavorite) =>
        /\ request.op = "patch"
        /\ request.id = games[j].id
        /\ response.status = 200

\* An accepted update whose body says isFavorite: true, of a record that is
\* not a favorite.
C5_Witness ==
    /\ request.op = "put"
    /\ response.status = 200
    /\ request.body.isFavorite = Bool(TRUE)
    /\ response.body.isFavorite = FALSE
    /\ before # games

\* C6: two consecutive toggles of an existing id bring the collection back
\* to what it was (the record's isFavorite, its other fields and every
\* other record); of two consecutive deletes of an existing id the first
\* answers 200 and the second 404, leaving the collection as the first did.
C6_TwiceInARow ==
    [][ /\ (request'.op \in {"patch", "delete"} /\ Has(games, request'.id))
              => response'.status = 200
        /\ (request.op = "patch" /\ response.status = 200
              /\ request'.op = "patch" /\ request'.id = request.id)
              => (response'.status = 200 /\ games' = before)
        /\ (request.op = "delete" /\ response.status = 200
              /\ request'.op = "delete" /\ request'.id = request.id)
              => (response'.status = 404 /\ games' = games) ]_vars

\* The second of two toggles in a row has been answered.
C6_Witness ==
    /\ repeat
    /\ request.op = "patch"
    /\ response.status = 200
    /\ Len(games) = 3

\* C7: a record created and not updated, deleted or toggled since is what
\* GET /api/games/:id returns for its id, with status 200 and equal to the
\* 201 body in every field, which holds the payload's seven values.
C7_CreateThenGet ==
    /\ Created =>
          /\ response.body \in fresh
          /\ \A i \in 1..Len(CheckOrder) :
                response.body[CheckOrder[i]] = request.body[CheckOrder[i]]
    /\ \A g \in fresh :
          /\ Has(games, g.id)
          /\ games[IndexOf(games, g.id)] = g
          /\ (request.op = "get" /\ request.id = g.id) =>
                response = [status |-> 200, body |-> g]

\* A GET of the record created first, after a second create and a delete.
C7_Witness ==
    /\ request.op = "get"
    /\ request.id = "3"
    /\ response.status = 200
    /\ response.body \in fresh
    /\ nextId = 5
    /\ deleted # {}

\* C8: every record of the collection satisfies the data model: the five
\* string fields are non-empty strings, rating is a number in [0,10],
\* releaseDate is a string that parses to a date, isFavorite is a boolean
\* and id a string.
C8_DataModel ==
    \A i \in 1..Len(games) :
        LET g == games[i]
        IN  /\ \A f \in StringFields : g[f].t = "string" /\ g[f].s # ""
            /\ g.rating.t = "number"
            /\ g.rating.n >= 0
            /\ g.rating.n <= 10 * Scale
            /\ g.releaseDate.t = "string"
            /\ ~DateIsNaN(g.releaseDate)
            /\ g.isFavorite \in BOOLEAN
            /\ g.id \in {toString(n) : n \in 1..MaxNextId}

\* C9: GET /api/games returns the collection, whose ids always increase
\* numerically: a create appends, a delete removes the matching record and
\* keeps the others in order, update and toggle keep length and order; the
\* first two creates get ids "3" and "4", and with nothing deleted the list
\* is then "1", "2", "3", "4".
C9_CreationOrder ==
    /\ request.op = "list" => response = [status |-> 200, body |-> games]
    /\ \A i, j \in 1..Len(games) :
          i < j => parseInt(games[i].id) < parseInt(games[j].id)
    /\ Created => games = Append(before, response.body)
    /\ (request.op = "delete" /\ response.status = 200) =>
          /\ games = SelectSeq(before, LAMBDA g : g.id # request.id)
          /\ Len(games) = Len(before) - 1
    /\ request.op \in {"put", "patch"} => Ids(games) = Ids(before)
    /\ request.op \in {"list", "get"} => games = before
    /\ \A i \in 1..Len(assigned) : assigned[i] = toString(i)
    /\ (Len(assigned) = 4 /\ deleted = {}) =>
          Ids(games) = <<"1", "2", "3", "4">>

\* The list after two creates.
C9_Witness ==
    /\ request.op = "list"
    /\ Len(response.body) = 4
    /\ Ids(response.body) = <<"1", "2", "3", "4">>

\* C10: PUT with a valid payload on an existing id answers 200 with the
\* updated record and replaces exactly the record's seven payload fields;
\* its id, its isFavorite, its position, every other record, the length
\* and the counter are unchanged.
C10_UpdateFrame ==
    (request.op = "put" /\ PayloadValid(request.body)
        /\ Has(before, request.id)) =>
        LET i == IndexOf(before, request.id)
            b == request.body
            updated ==
                [id |-> before[i].id, title |-> b.title,
                 description |-> b.description, genre |-> b.genre,
                 platform |-> b.platform, rating |-> b.rating,
                 releaseDate |-> b.releaseDate, imageUrl |-> b.imageUrl,
                 isFavorite |-> before[i].isFavorite]
        IN  /\ response = [status |-> 200, body |-> updated]
            /\ Len(games) = Len(before)
            /\ games[i] = updated
            /\ \A k \in 1..Len(before) : k # i => games[k] = before[k]
            /\ nextId = beforeNextId

\* An accepted update of the second of four records, a favorite.
C10_Witness ==
    /\ request.op = "put"
    /\ response.status = 200
    /\ request.id = "2"
    /\ Len(games) = 4
    /\ games[2] # before[2]
    /\ games[2].isFavorite

============================================================================
